---- MODULE Spec2Model ----
(***************************************************************************)
(* Model of ADLX_3DSettings.cpp: the flat exports HasRSRSupport ..         *)
(* SetAntiLagState, the helpers InitializeADLX and Get3DGraphicsServices,  *)
(* and DllMain, run against a vendor layer (ADLX) whose every call may     *)
(* succeed or fail and hand out a null or a non-null interface pointer.    *)
(***************************************************************************)
EXTENDS Integers, Sequences, FiniteSets, TLC

\* Bound on the number of entries into the module (exported calls and
\* DllMain notifications) in one run of the process.
MaxCalls == 2

\* SetRSRSharpness: if (sharpness < 0 || sharpness > 100)
MinSharpness == 0
MaxSharpness == 100

\* The values SetRSRSharpness is called with: both bounds and both neighbours.
SharpnessInputs == {MinSharpness - 1, MinSharpness, MaxSharpness, MaxSharpness + 1}

\* The sharpness the driver holds before the wrapper writes any.
DriverSharpness == (MinSharpness + MaxSharpness) \div 2

Threads == {"t1", "t2"}
MainThread == "t1"

\* The 3D-settings features of the vendor layer the model tells apart.
\* "FRTC" is frame-rate target control (GetFrameRateTargetControl).
Features == {"RSR", "AFMF", "AntiLag", "FRTC"}

\* The reference-counted interface types a call acquires.
HandleTypes == {"gpus", "gpu", "srv", "feat"}

HasOps == {"HasRSRSupport", "HasAFMFSupport", "HasAntiLagSupport"}
GetStateOps == {"GetRSRState", "GetAFMFState", "GetAntiLagState"}
SetStateOps == {"SetRSR", "SetAFMFState", "SetAntiLagState"}
Ops == HasOps \cup GetStateOps \cup SetStateOps \cup {"GetRSRSharpness", "SetRSRSharpness"}
SetOps == SetStateOps \cup {"SetRSRSharpness"}

Reasons == {"DLL_PROCESS_ATTACH", "DLL_PROCESS_DETACH", "DLL_THREAD_ATTACH", "DLL_THREAD_DETACH"}

VARIABLES
    g_bInitialized,   \* static bool g_bInitialized
    helperUp,         \* g_ADLXHelper holds an initialized ADLX (Initialize succeeded, no Terminate since)
    enabled,          \* driver: enabled flag of each 3D-settings feature
    sharpness,        \* driver: RSR sharpness
    live,             \* vendor layer: outstanding references per interface type
    initCalls,        \* number of ADLXHelper::Initialize invocations
    initOk,           \* number of those that succeeded
    initFail,         \* number of those that failed
    termCalls,        \* number of ADLXHelper::Terminate invocations
    phase,            \* "initial" (statics constructed) | "loaded" | "detached"
    lastReason,       \* the last ul_reason_for_call DllMain was entered with
    nCalls,           \* entries into the module so far
    th,               \* per thread: the call in progress (position, locals, what it did)
    last              \* summary of the call that returned last

vars == <<g_bInitialized, helperUp, enabled, sharpness, live, initCalls, initOk, initFail,
          termCalls, phase, lastReason, nCalls, th, last>>

vendorVars == <<enabled, sharpness>>
rootVars == <<g_bInitialized, helperUp, initCalls, initOk, initFail, termCalls>>
dllVars == <<phase, lastReason>>

\* A thread that is not inside any export.  gpus, gpu, srv, feat: the local
\* interface pointers (TRUE: not null).  trace: the vendor calls and releases
\* of the call, in order.  allOk: every vendor call so far drew a success and a
\* non-null pointer.  failedAt: position in trace of the first step of the
\* chain that drew a failed status or a null pointer (0: none).
IdleThread ==
    [pc |-> "idle", op |-> "none", argB |-> FALSE, argI |-> 0,
     retB |-> FALSE, retI |-> 0,
     gpus |-> FALSE, gpu |-> FALSE, srv |-> FALSE, feat |-> FALSE, resOk |-> FALSE,
     preEnabled |-> [f \in Features |-> FALSE], preSharpness |-> 0, preInit |-> FALSE,
     trace |-> <<>>, allOk |-> TRUE, failedAt |-> 0]

NoCall ==
    [op |-> "none", argB |-> FALSE, argI |-> 0, retB |-> FALSE, retI |-> 0,
     preB |-> FALSE, preI |-> 0, healthy |-> FALSE, writes |-> 0]

ChainSteps == {"Initialize", "GetSystemServices", "GetGPUs", "At", "Get3DSettingsServices", "GetFeature"}
WriteSteps == {"SetEnabled", "SetSharpness"}
ReadSteps == {"IsEnabled", "GetSharpness"}

RelStep(h) ==
    CASE h = "gpus" -> "Release_gpus"
      [] h = "gpu" -> "Release_gpu"
      [] h = "srv" -> "Release_srv"
      [] h = "feat" -> "Release_feat"

\* The locals l after the vendor call `step` returned status ok and pointer nn
\* (nn = TRUE for a call without an out-pointer).
Did(l, step, ok, nn) ==
    [l EXCEPT !.trace = Append(@, step),
              !.allOk = @ /\ ok /\ nn,
              !.failedAt = IF @ = 0 /\ step \in ChainSteps /\ (~ok \/ ~nn)
                           THEN Len(l.trace) + 1 ELSE @]

\* if (p != nullptr) p->Release();   for the local pointer named h
Rel(l, h) == IF l[h] THEN [l EXCEPT !.trace = Append(@, RelStep(h))] ELSE l

Init ==
    /\ g_bInitialized = FALSE
    /\ helperUp = FALSE
    /\ \E b \in BOOLEAN : enabled = [f \in Features |-> b]
    /\ sharpness = DriverSharpness
    /\ live = [h \in HandleTypes |-> 0]
    /\ initCalls = 0
    /\ initOk = 0
    /\ initFail = 0
    /\ termCalls = 0
    /\ phase = "initial"
    /\ lastReason = "none"
    /\ nCalls = 0
    /\ th = [t \in Threads |-> IdleThread]
    /\ last = NoCall

(***************************************************************************)
(* What each export is wired to.                                           *)
(***************************************************************************)

\* The feature interface each export asks the 3D-settings service for.
FeatureOf(op) ==
    CASE op \in {"HasRSRSupport", "GetRSRState", "SetRSR", "GetRSRSharpness", "SetRSRSharpness"} -> "RSR"
      [] op \in {"HasAFMFSupport", "GetAFMFState", "SetAFMFState"} -> "FRTC"
      [] op \in {"HasAntiLagSupport", "GetAntiLagState", "SetAntiLagState"} -> "AntiLag"

\* Mutants of the range check: the upper bound forgotten; both bounds exclusive.
RangeRejected_NoUpper(s) == s < MinSharpness
RangeRejected_Exclusive(s) == s <= MinSharpness \/ s >= MaxSharpness

\* SetRSRSharpness: if (sharpness < 0 || sharpness > 100) return false;
RangeRejected(s) == s < MinSharpness \/ s > MaxSharpness

\* Mutant: the status test inverted (ADLX_FAILED for ADLX_SUCCEEDED).
WriteSucceeded_Inverted(resOk) == ~resOk

\* success = ADLX_SUCCEEDED(res) after SetEnabled / SetSharpness
WriteSucceeded(resOk) == resOk

\* Mutant: the guard on g_bInitialized dropped.
TerminatesOnDetach_Always(initialized) == TRUE

\* DllMain, DLL_PROCESS_DETACH: if (g_bInitialized) { Terminate(); ... }
TerminatesOnDetach(initialized) == initialized

ArgsB(o) == IF o \in SetStateOps THEN BOOLEAN ELSE {FALSE}
ArgsI(o) == IF o = "SetRSRSharpness" THEN SharpnessInputs ELSE {0}

Outcome == [ok : BOOLEAN, nn : BOOLEAN]

Bump(h, b) == IF b THEN [live EXCEPT ![h] = @ + 1] ELSE live

(***************************************************************************)
(* Entry into an export: the locals are fresh; SetRSRSharpness checks its  *)
(* argument before anything else.                                          *)
(***************************************************************************)
Entry(t, o, ab, ai) ==
    /\ phase = "loaded"
    /\ th[t].pc = "idle"
    /\ nCalls < MaxCalls
    /\ nCalls' = nCalls + 1
    /\ th' = [th EXCEPT ![t] =
                [IdleThread EXCEPT
                   !.op = o, !.argB = ab, !.argI = ai,
                   !.preEnabled = enabled, !.preSharpness = sharpness, !.preInit = g_bInitialized,
                   !.pc = IF o = "SetRSRSharpness" /\ RangeRejected(ai)
                          THEN "done" ELSE "InitializeADLX"]]
    /\ UNCHANGED <<vendorVars, rootVars, dllVars, live, last>>

\* Get3DGraphicsServices returns nullptr and the export, finding
\* d3dSettingSrv == nullptr, returns false (GetRSRSharpness: -1).
ReturnsNull(l) ==
    [l EXCEPT !.pc = "done",
              !.retB = FALSE,
              !.retI = IF l.op = "GetRSRSharpness" THEN -1 ELSE 0]

(***************************************************************************)
(* bool InitializeADLX()                                                   *)
(* if (!InitializeADLX()) return nullptr;                                  *)
(***************************************************************************)
InitializeADLX(t) ==
    \* if (g_bInitialized) return true;
    \/ /\ th[t].pc = "InitializeADLX"
       /\ th' = [th EXCEPT ![t].pc = IF g_bInitialized THEN "GetSystemServices" ELSE "Initialize"]
       /\ UNCHANGED <<vendorVars, rootVars, dllVars, live, last, nCalls>>
    \* res = g_ADLXHelper.Initialize(); if (ADLX_SUCCEEDED(res)) { g_bInitialized = true; return true; } return false;
    \/ /\ th[t].pc = "Initialize"
       /\ \E ok \in BOOLEAN :
            /\ initCalls' = initCalls + 1
            /\ initOk' = IF ok THEN initOk + 1 ELSE initOk
            /\ initFail' = IF ok THEN initFail ELSE initFail + 1
            /\ g_bInitialized' = IF ok THEN TRUE ELSE g_bInitialized
            /\ helperUp' = IF ok THEN TRUE ELSE helperUp
            /\ th' = [th EXCEPT ![t] =
                        IF ok
                        THEN [Did(@, "Initialize", TRUE, TRUE) EXCEPT !.pc = "GetSystemServices"]
                        ELSE ReturnsNull(Did(@, "Initialize", FALSE, TRUE))]
       /\ UNCHANGED <<vendorVars, termCalls, dllVars, live, last, nCalls>>

(***************************************************************************)
(* adlx::IADLXInterface* Get3DGraphicsServices()                           *)
(***************************************************************************)
Get3DGraphicsServices(t) ==
    \* sys = GetSystemServices(); if (sys == nullptr) return nullptr;
    \* res = sys->GetGPUs(&gpus); if (ADLX_FAILED(res) || gpus == nullptr) return nullptr;
    \/ /\ th[t].pc = "GetSystemServices"
       /\ \E nn \in (IF helperUp THEN BOOLEAN ELSE {FALSE}) :
            IF ~nn
            THEN /\ th' = [th EXCEPT ![t] = ReturnsNull(Did(@, "GetSystemServices", TRUE, FALSE))]
                 /\ UNCHANGED live
            ELSE \E o \in Outcome :
                   /\ live' = Bump("gpus", o.nn)
                   /\ th' = [th EXCEPT ![t] =
                               LET l == [Did(Did(@, "GetSystemServices", TRUE, TRUE), "GetGPUs", o.ok, o.nn)
                                           EXCEPT !.gpus = o.nn]
                               IN  IF ~o.ok \/ ~o.nn THEN ReturnsNull(l) ELSE [l EXCEPT !.pc = "At"]]
       /\ UNCHANGED <<vendorVars, rootVars, dllVars, last, nCalls>>
    \* res = gpus->At(0, &gpu);
    \* if (ADLX_FAILED(res) || gpu == nullptr) { if (gpus != nullptr) gpus->Release(); return nullptr; }
    \/ /\ th[t].pc = "At"
       /\ \E o \in Outcome :
            LET l == [Did(th[t], "At", o.ok, o.nn) EXCEPT !.gpu = o.nn] IN
            IF ~o.ok \/ ~o.nn
            THEN /\ live' = [Bump("gpu", o.nn) EXCEPT !["gpus"] = IF l.gpus THEN @ - 1 ELSE @]
                 /\ th' = [th EXCEPT ![t] = ReturnsNull(Rel(l, "gpus"))]
            ELSE /\ live' = Bump("gpu", TRUE)
                 /\ th' = [th EXCEPT ![t] = [l EXCEPT !.pc = "Get3DSettingsServices"]]
       /\ UNCHANGED <<vendorVars, rootVars, dllVars, last, nCalls>>
    \* res = sys->Get3DSettingsServices(&d3dSettingSrv);
    \* if (gpus != nullptr) gpus->Release(); if (gpu != nullptr) gpu->Release(); return d3dSettingSrv;
    \/ /\ th[t].pc = "Get3DSettingsServices"
       /\ \E o \in Outcome :
            LET l == Rel(Rel([Did(th[t], "Get3DSettingsServices", o.ok, o.nn) EXCEPT !.srv = o.nn],
                             "gpus"), "gpu") IN
            /\ live' = [Bump("srv", o.nn) EXCEPT !["gpus"] = IF l.gpus THEN @ - 1 ELSE @,
                                                 !["gpu"] = IF l.gpu THEN @ - 1 ELSE @]
            /\ th' = [th EXCEPT ![t] = IF o.nn THEN [l EXCEPT !.pc = "Caller"] ELSE ReturnsNull(l)]
       /\ UNCHANGED <<vendorVars, rootVars, dllVars, last, nCalls>>

(***************************************************************************)
(* The body the eleven exports share, after Get3DGraphicsServices returns. *)
(***************************************************************************)

\* d3dSettingSrv is not null: res = d3dSettingSrv->Get<Feature>(&p);
Caller(t, o) ==
    /\ th[t].pc = "Caller"
    /\ th[t].op = o
    /\ th[t].srv
    /\ \E r \in Outcome :
         /\ live' = Bump("feat", r.nn)
         /\ th' = [th EXCEPT ![t] =
                     [Did(@, "GetFeature", r.ok, r.nn) EXCEPT !.feat = r.nn, !.resOk = r.ok, !.pc = "Act"]]
    /\ UNCHANGED <<vendorVars, rootVars, dllVars, last, nCalls>>

\* if (p != nullptr) p->Release(); if (d3dSettingSrv != nullptr) d3dSettingSrv->Release(); return ...;
ReleaseTail(l) == [Rel(Rel(l, "feat"), "srv") EXCEPT !.pc = "done"]

LiveAfterRelease(l) ==
    [live EXCEPT !["feat"] = IF l.feat THEN @ - 1 ELSE @,
                 !["srv"] = IF l.srv THEN @ - 1 ELSE @]

\* bool supported = ADLX_SUCCEEDED(res) && p != nullptr; <releases>; return supported;
ActHas(t, o) ==
    /\ th[t].pc = "Act"
    /\ th[t].op = o
    /\ th' = [th EXCEPT ![t] = ReleaseTail([@ EXCEPT !.retB = th[t].resOk /\ th[t].feat])]
    /\ live' = LiveAfterRelease(th[t])
    /\ UNCHANGED <<vendorVars, rootVars, dllVars, last, nCalls>>

\* bool enabled = false; if (ADLX_SUCCEEDED(res) && p != nullptr) p->IsEnabled(&enabled);
\* <releases>; return enabled;
ActGetState(t, o) ==
    /\ th[t].pc = "Act"
    /\ th[t].op = o
    /\ IF th[t].resOk /\ th[t].feat
       THEN \E rok \in BOOLEAN :
              th' = [th EXCEPT ![t] =
                       ReleaseTail([Did(@, "IsEnabled", rok, TRUE) EXCEPT
                                      !.retB = IF rok THEN enabled[FeatureOf(o)] ELSE FALSE])]
       ELSE th' = [th EXCEPT ![t] = ReleaseTail([@ EXCEPT !.retB = FALSE])]
    /\ live' = LiveAfterRelease(th[t])
    /\ UNCHANGED <<vendorVars, rootVars, dllVars, last, nCalls>>

\* bool success = false; if (...) { res = p->SetEnabled(isEnabled); success = ADLX_SUCCEEDED(res); }
\* <releases>; return success;
ActSetState(t, o) ==
    /\ th[t].pc = "Act"
    /\ th[t].op = o
    /\ IF th[t].resOk /\ th[t].feat
       THEN \E wok \in BOOLEAN :
              /\ enabled' = IF wok THEN [enabled EXCEPT ![FeatureOf(o)] = th[t].argB] ELSE enabled
              /\ th' = [th EXCEPT ![t] =
                          ReleaseTail([Did(@, "SetEnabled", wok, TRUE) EXCEPT !.retB = WriteSucceeded(wok)])]
       ELSE /\ th' = [th EXCEPT ![t] = ReleaseTail([@ EXCEPT !.retB = FALSE])]
            /\ UNCHANGED enabled
    /\ live' = LiveAfterRelease(th[t])
    /\ UNCHANGED <<sharpness, rootVars, dllVars, last, nCalls>>

\* int sharpness = -1; if (...) { res = rsr->GetSharpness(&value); if (ADLX_SUCCEEDED(res)) sharpness = (int)value; }
\* <releases>; return sharpness;
ActGetSharpness(t, o) ==
    /\ th[t].pc = "Act"
    /\ th[t].op = o
    /\ IF th[t].resOk /\ th[t].feat
       THEN \E rok \in BOOLEAN :
              th' = [th EXCEPT ![t] =
                       ReleaseTail([Did(@, "GetSharpness", rok, TRUE) EXCEPT
                                      !.retI = IF rok THEN sharpness ELSE -1])]
       ELSE th' = [th EXCEPT ![t] = ReleaseTail([@ EXCEPT !.retI = -1])]
    /\ live' = LiveAfterRelease(th[t])
    /\ UNCHANGED <<vendorVars, rootVars, dllVars, last, nCalls>>

\* bool success = false; if (...) { res = rsr->SetSharpness(sharpness); success = ADLX_SUCCEEDED(res); }
\* <releases>; return success;
ActSetSharpness(t, o) ==
    /\ th[t].pc = "Act"
    /\ th[t].op = o
    /\ IF th[t].resOk /\ th[t].feat
       THEN \E wok \in BOOLEAN :
              /\ sharpness' = IF wok THEN th[t].argI ELSE sharpness
              /\ th' = [th EXCEPT ![t] =
                          ReleaseTail([Did(@, "SetSharpness", wok, TRUE) EXCEPT !.retB = WriteSucceeded(wok)])]
       ELSE /\ th' = [th EXCEPT ![t] = ReleaseTail([@ EXCEPT !.retB = FALSE])]
            /\ UNCHANGED sharpness
    /\ live' = LiveAfterRelease(th[t])
    /\ UNCHANGED <<enabled, rootVars, dllVars, last, nCalls>>

\* The writes the call issued to the vendor layer.
Writes(tr) == {i \in 1..Len(tr) : tr[i] \in WriteSteps}

\* The export returns to its caller.
Return(t, o) ==
    /\ th[t].pc = "done"
    /\ th[t].op = o
    /\ last' = [op |-> o, argB |-> th[t].argB, argI |-> th[t].argI,
                retB |-> th[t].retB, retI |-> th[t].retI,
                preB |-> th[t].preEnabled[FeatureOf(o)], preI |-> th[t].preSharpness,
                healthy |-> th[t].allOk,
                writes |-> Cardinality(Writes(th[t].trace))]
    /\ th' = [th EXCEPT ![t] = IdleThread]
    /\ UNCHANGED <<vendorVars, rootVars, dllVars, live, nCalls>>

Enter(t, o) == \E ab \in ArgsB(o), ai \in ArgsI(o) : Entry(t, o, ab, ai)

HasRSRSupport(t) ==
    LET o == "HasRSRSupport" IN Enter(t, o) \/ Caller(t, o) \/ ActHas(t, o) \/ Return(t, o)
GetRSRState(t) ==
    LET o == "GetRSRState" IN Enter(t, o) \/ Caller(t, o) \/ ActGetState(t, o) \/ Return(t, o)
SetRSR(t) ==
    LET o == "SetRSR" IN Enter(t, o) \/ Caller(t, o) \/ ActSetState(t, o) \/ Return(t, o)
GetRSRSharpness(t) ==
    LET o == "GetRSRSharpness" IN Enter(t, o) \/ Caller(t, o) \/ ActGetSharpness(t, o) \/ Return(t, o)
SetRSRSharpness(t) ==
    LET o == "SetRSRSharpness" IN Enter(t, o) \/ Caller(t, o) \/ ActSetSharpness(t, o) \/ Return(t, o)
HasAFMFSupport(t) ==
    LET o == "HasAFMFSupport" IN Enter(t, o) \/ Caller(t, o) \/ ActHas(t, o) \/ Return(t, o)
GetAFMFState(t) ==
    LET o == "GetAFMFState" IN Enter(t, o) \/ Caller(t, o) \/ ActGetState(t, o) \/ Return(t, o)
SetAFMFState(t) ==
    LET o == "SetAFMFState" IN Enter(t, o) \/ Caller(t, o) \/ ActSetState(t, o) \/ Return(t, o)
HasAntiLagSupport(t) ==
    LET o == "HasAntiLagSupport" IN Enter(t, o) \/ Caller(t, o) \/ ActHas(t, o) \/ Return(t, o)
GetAntiLagState(t) ==
    LET o == "GetAntiLagState" IN Enter(t, o) \/ Caller(t, o) \/ ActGetState(t, o) \/ Return(t, o)
SetAntiLagState(t) ==
    LET o == "SetAntiLagState" IN Enter(t, o) \/ Caller(t, o) \/ ActSetState(t, o) \/ Return(t, o)

(***************************************************************************)
(* BOOL APIENTRY DllMain(HMODULE, DWORD ul_reason_for_call, LPVOID)        *)
(* The loader enters it once on load, before any export, and on unload     *)
(* when no export is running.                                              *)
(***************************************************************************)
DllMain(reason) ==
    /\ \A t \in Threads : th[t].pc = "idle"
    /\ lastReason' = reason
    /\ CASE reason = "DLL_PROCESS_ATTACH" ->
              /\ phase = "initial"
              /\ phase' = "loaded"
              /\ UNCHANGED <<rootVars, nCalls>>
         [] reason = "DLL_PROCESS_DETACH" ->
              /\ phase = "loaded"
              /\ phase' = "detached"
              /\ nCalls' = nCalls
              /\ IF TerminatesOnDetach(g_bInitialized)
                 THEN /\ termCalls' = termCalls + 1
                      /\ helperUp' = FALSE
                      /\ g_bInitialized' = FALSE
                      /\ UNCHANGED <<initCalls, initOk, initFail>>
                 ELSE UNCHANGED rootVars
         [] OTHER ->
              /\ phase = "loaded"
              /\ nCalls < MaxCalls
              /\ nCalls' = nCalls + 1
              /\ UNCHANGED <<phase, rootVars>>
    /\ UNCHANGED <<vendorVars, live, th, last>>

Exports(t) ==
    \/ HasRSRSupport(t) \/ GetRSRState(t) \/ SetRSR(t) \/ GetRSRSharpness(t) \/ SetRSRSharpness(t)
    \/ HasAFMFSupport(t) \/ GetAFMFState(t) \/ SetAFMFState(t)
    \/ HasAntiLagSupport(t) \/ GetAntiLagState(t) \/ SetAntiLagState(t)

ThreadStep(t) == Exports(t) \/ InitializeADLX(t) \/ Get3DGraphicsServices(t)

\* One thread calls the exports, one call after the other.
Next ==
    \/ ThreadStep(MainThread)
    \/ \E reason \in Reasons : DllMain(reason)

Spec == Init /\ [][Next]_vars

\* Several threads call the exports; their steps interleave.
ConcNext ==
    \/ \E t \in Threads : ThreadStep(t)
    \/ \E reason \in Reasons : DllMain(reason)

\* The driver starts with every feature disabled.
ConcInit == Init /\ enabled = [f \in Features |-> FALSE]

ConcSpec == ConcInit /\ [][ConcNext]_vars

(***************************************************************************)
(* What a call did, read off its locals and its trace.                     *)
(***************************************************************************)

\* Handles of type h the vendor handed out during the call (each getter is
\* called at most once, and the local pointer keeps what it handed out) and
\* the number of times the call released one.
Acquired(l, h) == IF l[h] THEN 1 ELSE 0
ReleasedIn(l, h) == Cardinality({i \in 1..Len(l.trace) : l.trace[i] = RelStep(h)})

\* The vendor layer was healthy during the call: every vendor call the wrapper
\* made drew a success and a non-null pointer.
Healthy(l) == l.allOk

\* The call returned its failure value.
ReturnedFailure(l) == IF l.op = "GetRSRSharpness" THEN l.retI = -1 ELSE l.retB = FALSE

InRange(v) == MinSharpness <= v /\ v <= MaxSharpness

\* The Get* export that reports what a Set* export writes.
MatchingGet(o) ==
    CASE o = "SetRSR" -> "GetRSRState"
      [] o = "SetAFMFState" -> "GetAFMFState"
      [] o = "SetAntiLagState" -> "GetAntiLagState"
      [] o = "SetRSRSharpness" -> "GetRSRSharpness"

Returning(t) == th[t].pc = "done"

(***************************************************************************)
(* C1. Resource balance: when a call returns, every GPU-list, GPU,         *)
(* 3D-settings-service and feature handle the vendor handed out during the *)
(* call has been released exactly once, whatever the vendor outcomes.      *)
(* The code returns without releasing a non-null handle that came with a   *)
(* failed status from GetGPUs or At.                                       *)
(***************************************************************************)
C1_ResourceBalance ==
    \A t \in Threads :
        Returning(t) =>
            \A h \in HandleTypes : Acquired(th[t], h) = ReleasedIn(th[t], h)

(***************************************************************************)
(* C2. Initialization-once: over any sequence of sequential calls with no  *)
(* unload in between, ADLXHelper::Initialize is invoked at most once,      *)
(* whether it succeeds or fails.  The code calls it again in every call    *)
(* that finds g_bInitialized false, so a failed initialization is retried. *)
(***************************************************************************)
C2_InitializeAtMostOnce == phase = "loaded" => initCalls <= 1

(***************************************************************************)
(* C3. For a sharpness below 0 or above 100, SetRSRSharpness returns false *)
(* and does not touch the vendor layer: no Initialize, no acquisition, no  *)
(* write; the driver state and g_bInitialized are as before the call.      *)
(***************************************************************************)
C3_OutOfRangeRejected ==
    \A t \in Threads :
        (Returning(t) /\ th[t].op = "SetRSRSharpness" /\ ~InRange(th[t].argI)) =>
            /\ th[t].retB = FALSE
            /\ th[t].trace = <<>>
            /\ enabled = th[t].preEnabled
            /\ sharpness = th[t].preSharpness
            /\ g_bInitialized = th[t].preInit

\* An out-of-range call returns while the root is already initialized.
C3_Witness ==
    \E t \in Threads :
        /\ Returning(t) /\ th[t].op = "SetRSRSharpness"
        /\ th[t].argI > MaxSharpness
        /\ g_bInitialized

(***************************************************************************)
(* C4. Abort on any failed step: if a step of the chain root -> GPU list   *)
(* -> first GPU -> 3D-settings service -> feature handle yields a null     *)
(* handle or a failed status, the export returns its failure value and     *)
(* performs no later step (no acquisition, no read, no write).  The code   *)
(* never tests the status of Get3DSettingsServices.                        *)
(***************************************************************************)
C4_AbortOnFailedStep ==
    \A t \in Threads :
        Returning(t) =>
            (th[t].failedAt > 0 =>
                /\ ReturnedFailure(th[t])
                /\ \A j \in (th[t].failedAt + 1)..Len(th[t].trace) :
                       th[t].trace[j] \notin (ChainSteps \cup WriteSteps \cup ReadSteps))

(***************************************************************************)
(* C5. A failed set never applies: when SetRSR, SetAFMFState,              *)
(* SetAntiLagState or SetRSRSharpness returns false, the wrapper issued at *)
(* most one write and the driver state is what it was before the call; the *)
(* matching Get*, called next against a healthy vendor layer, returns the  *)
(* value from before the failed set.                                       *)
(***************************************************************************)
C5_FailedSetNeverApplies ==
    \A t \in Threads :
        /\ (Returning(t) /\ th[t].op \in SetOps /\ th[t].retB = FALSE) =>
              /\ Cardinality(Writes(th[t].trace)) <= 1
              /\ enabled = th[t].preEnabled
              /\ sharpness = th[t].preSharpness
        /\ (/\ Returning(t)
            /\ last.op \in SetOps
            /\ last.retB = FALSE
            /\ th[t].op = MatchingGet(last.op)
            /\ Healthy(th[t])) =>
              IF th[t].op = "GetRSRSharpness"
              THEN th[t].retI = last.preI
              ELSE th[t].retB = last.preB

\* SetAntiLagState(false) failed at the write while Anti-Lag was enabled, and
\* the GetAntiLagState that follows has returned.
C5_Witness ==
    \E t \in Threads :
        /\ Returning(t) /\ th[t].op = "GetAntiLagState" /\ Healthy(th[t])
        /\ last.op = "SetAntiLagState" /\ last.retB = FALSE /\ last.writes = 1
        /\ last.argB = FALSE /\ last.preB = TRUE

(***************************************************************************)
(* C6. For 0 <= v <= 100 and a healthy vendor layer, SetRSRSharpness(v)    *)
(* returns true, the wrapper issues exactly one write, a SetSharpness, the *)
(* vendor layer holds v as the sharpness afterwards, and the               *)
(* GetRSRSharpness that follows returns v.                                 *)
(***************************************************************************)
C6_InRangeWritten ==
    \A t \in Threads :
        /\ (/\ Returning(t)
            /\ th[t].op = "SetRSRSharpness"
            /\ InRange(th[t].argI)
            /\ Healthy(th[t])) =>
              /\ th[t].retB = TRUE
              /\ Cardinality(Writes(th[t].trace)) = 1
              /\ \A i \in Writes(th[t].trace) : th[t].trace[i] = "SetSharpness"
              /\ sharpness = th[t].argI
        /\ (/\ Returning(t)
            /\ th[t].op = "GetRSRSharpness"
            /\ Healthy(th[t])
            /\ last.op = "SetRSRSharpness"
            /\ InRange(last.argI)
            /\ last.healthy) =>
              th[t].retI = last.argI

\* SetRSRSharpness(100) against a healthy vendor layer, then GetRSRSharpness.
C6_Witness ==
    \E t \in Threads :
        /\ Returning(t) /\ th[t].op = "GetRSRSharpness" /\ Healthy(th[t])
        /\ last.op = "SetRSRSharpness" /\ last.argI = MaxSharpness /\ last.healthy
        /\ last.retB = TRUE /\ last.writes = 1

(***************************************************************************)
(* C7. Exactly-once initialization under concurrency: when several threads *)
(* make their first calls concurrently, ADLXHelper::Initialize runs once.  *)
(* Stated for the runs in which no Initialize fails, where a second        *)
(* invocation can only come from two threads both reading g_bInitialized   *)
(* as false (the flag is read and written without any synchronization).    *)
(***************************************************************************)
C7_InitializeOnceConcurrently == initFail = 0 => initCalls <= 1

(***************************************************************************)
(* C8. Lifecycle of the root: no export resets g_bInitialized; while the   *)
(* module is loaded Terminate is never called (not on load, not on thread  *)
(* attach or detach); on DLL_PROCESS_DETACH Terminate is called once and   *)
(* the guard reset if and only if an initialization had succeeded.         *)
(***************************************************************************)
C8_RootLifecycle ==
    /\ phase \in {"initial", "loaded"} =>
          /\ termCalls = 0
          /\ g_bInitialized <=> initOk > 0
    /\ phase = "detached" =>
          /\ lastReason = "DLL_PROCESS_DETACH"
          /\ ~g_bInitialized
          /\ termCalls = IF initOk > 0 THEN 1 ELSE 0

\* The module was unloaded after a successful initialization.
C8_Witness == phase = "detached" /\ initOk > 0 /\ termCalls = 1

(***************************************************************************)
(* C9. Each feature export acts on its own feature: a successful           *)
(* SetAFMFState(b) sets the AFMF enabled flag to b and leaves the enabled  *)
(* flags of RSR, Anti-Lag and frame-rate target control and the RSR        *)
(* sharpness unchanged.  The AFMF exports ask the service for              *)
(* GetFrameRateTargetControl, so the write lands on frame-rate target      *)
(* control.                                                                *)
(***************************************************************************)
C9_OwnFeatureOnly ==
    \A t \in Threads :
        (Returning(t) /\ th[t].op = "SetAFMFState" /\ th[t].retB = TRUE) =>
            /\ enabled["AFMF"] = th[t].argB
            /\ \A f \in Features \ {"AFMF"} : enabled[f] = th[t].preEnabled[f]
            /\ sharpness = th[t].preSharpness

(***************************************************************************)
(* C10. Handle ordering: no GPU-list or GPU handle is outstanding while a  *)
(* feature handle is; the feature handle is released before the            *)
(* 3D-settings-service handle; and when no call is running no handle       *)
(* other than the root is outstanding.  A handle leaked by GetGPUs or At   *)
(* (see C1) stays outstanding after the call.                              *)
(***************************************************************************)
C10_HandleOrdering ==
    /\ live["feat"] > 0 => (live["gpus"] = 0 /\ live["gpu"] = 0)
    /\ \A t \in Threads :
          \A i, j \in 1..Len(th[t].trace) :
              (th[t].trace[i] = "Release_srv" /\ th[t].trace[j] = "Release_feat") => j < i
    /\ (\A t \in Threads : th[t].pc \in {"idle", "done"}) => \A h \in HandleTypes : live[h] = 0

====
